---- MODULE Spec2Model ----
(***************************************************************************)
(* The block read pipeline of table/format.cc (ReadBlockContext,           *)
(* ReadBlockContentsContext, ReadFooterContext) and the Status value of    *)
(* include/rocksdb/status.h, as a state machine.                           *)
(*                                                                         *)
(* One behaviour is one round: the inputs of a read (options, handle, the  *)
(* bytes the reader will deliver, the persistent cache's answer) are fixed *)
(* in the initial state, and the entry points are then run on them, one    *)
(* run after the other.  A run that was started through the asynchronous   *)
(* entry point and whose read returned IOPending is finished by the I/O    *)
(* completion, which runs on a foreign task and may run before the request *)
(* function has returned.                                                  *)
(***************************************************************************)
EXTENDS Integers, Sequences, FiniteSets, TLC

VARIABLES
  inp,       \* the inputs of the round
  run,       \* entry point of the current run ("none" before the first)
  pc,        \* requesting task: "idle", "submitted" (RequestRead called), "done"
  io,        \* the positional read: "none", "queued" (IOPending), "completed"
  ctx,       \* the context object of the run
  frees,     \* how many times the context was destroyed
  uaf,       \* a destroyed context was read or written
  ret,       \* <<status>> returned by the entry point, <<>> before
  ioret,     \* <<status>> returned by OnIoCompletion, <<>> before
  cbs,       \* statuses handed to the client callback, in order
  contents,  \* the caller's BlockContents (out parameter)
  events,    \* stages of the run, in order
  rawIns,    \* byte strings given to InsertRawPage in the run
  uncIns,    \* BlockContents given to InsertUncompressedPage in the run
  syncRes,   \* <<[status, contents]>> of the round's synchronous read
  footer,    \* the caller's Footer (out parameter of a footer read)
  cin,       \* the object an encoder is called on and the bytes around it
  dst,       \* the std::string EncodeTo appends to
  cpc,       \* codec round: "idle", "ready", "encoded", "decoded"
  dec,       \* <<[status, value, rest]>> of DecodeFrom, <<>> before
  sobj,      \* the Status objects of a client, by name
  op         \* the last operation on them, with the operands before it

pipelineVars == <<inp, run, pc, io, ctx, frees, uaf, ret, ioret, cbs, contents,
                  events, rawIns, uncIns, syncRes, footer>>
codecVars == <<cin, dst, cpc, dec>>
statusVars == <<sobj, op>>

vars == <<pipelineVars, codecVars, statusVars>>

-----------------------------------------------------------------------------
(* Bounds of the model *)

\* longest payload (handle.size) of a block
MaxSize == 1
\* payload bytes range over 0..MaxByte
MaxByte == 1

-----------------------------------------------------------------------------
(* Status: include/rocksdb/status.h *)

MkStatus(code, subcode, msg) ==
  [code |-> code, subcode |-> subcode, msg |-> msg, async |-> FALSE]

StatusOK == MkStatus("Ok", "None", "")
Corruption(msg) == MkStatus("Corruption", "None", msg)
NotFound == MkStatus("NotFound", "None", "")
IOPending == MkStatus("IOPending", "None", "")

ok(s) == s.code = "Ok"
IsNotFound(s) == s.code = "NotFound"
IsIOPending(s) == s.code = "IOPending"

\* the names of the Status objects a client holds
StatusNames == {"a", "b"}

SetAsync(s, a) == [s EXCEPT !.async = a]

\* Status::X(SubCode msg = kNone): the fast path without a message
Factory(code, subcode) == MkStatus(code, subcode, "")
\* Status::X(const Slice& msg, const Slice& msg2 = Slice())
FactoryMsg(code, msg) == MkStatus(code, "None", msg)

NoSpace == MkStatus("IOError", "NoSpace", "")
NoSpaceMsg(msg) == MkStatus("IOError", "NoSpace", msg)
MemoryLimit == MkStatus("Aborted", "MemoryLimit", "")
MemoryLimitMsg(msg) == MkStatus("Aborted", "MemoryLimit", msg)

IsNoSpace(s) == s.code = "IOError" /\ s.subcode = "NoSpace"
IsMemoryLimit(s) == s.code = "Aborted" /\ s.subcode = "MemoryLimit"

\* CopyState: a new buffer with the same message
CopyState(state) == state

\* an assignment that leaves the async bit of the destination as it was
CopyAssign_KeepAsync(objs, d, s) ==
  IF d # s
    THEN [objs EXCEPT ![d] = [code |-> objs[s].code,
                              subcode |-> objs[s].subcode,
                              msg |-> CopyState(objs[s].msg),
                              async |-> objs[d].async]]
    ELSE objs

\* Status::operator=(const Status& s) on the object named d with s the object
\* named s: the objects afterwards
CopyAssign(objs, d, s) ==
  IF d # s
    THEN [objs EXCEPT ![d] = [code |-> objs[s].code,
                              subcode |-> objs[s].subcode,
                              msg |-> IF objs[s].msg = ""
                                        THEN "" ELSE CopyState(objs[s].msg),
                              async |-> objs[s].async]]
    ELSE objs

\* Status::operator=(Status&& s): code and subcode are taken and reset in the
\* source, the message buffers and the async bits are swapped after the
\* destination's were cleared, and the source's async bit is reset
MoveAssign(objs, d, s) ==
  IF d # s
    THEN [objs EXCEPT ![d] = [code |-> objs[s].code,
                              subcode |-> objs[s].subcode,
                              msg |-> objs[s].msg,
                              async |-> objs[s].async],
                      ![s] = [code |-> "Ok", subcode |-> "None",
                              msg |-> "", async |-> FALSE]]
    ELSE objs

\* an equality that looks at the subcode as well
StatusEq_WithSubcode(a, b) == a.code = b.code /\ a.subcode = b.subcode

\* Status::operator==
StatusEq(a, b) == a.code = b.code
\* Status::operator!=
StatusNe(a, b) == ~StatusEq(a, b)

-----------------------------------------------------------------------------
(* Bytes, fixed-width integers and checksums.  A 32-bit value is the pair   *)
(* <<hi, lo>> of its 16-bit halves, so that the arithmetic modulo 2^32 of   *)
(* the mask stays inside the 32-bit integers of TLC.                         *)

kBlockTrailerSize == 5
kNoCompression == 0
kCRC32c == 1
kxxHash == 2

Half == 256 * 256

DecodeFixed32(b) == <<b[3] + 256 * b[4], b[1] + 256 * b[2]>>
EncodeFixed32(v) == <<v[2] % 256, v[2] \div 256, v[1] % 256, v[1] \div 256>>

Add32(a, b) ==
  LET l == a[2] + b[2] IN <<(a[1] + b[1] + (l \div Half)) % Half, l % Half>>
Sub32(a, b) ==
  LET l == a[2] - b[2]
      borrow == IF l < 0 THEN 1 ELSE 0
  IN <<(a[1] - b[1] - borrow + 2 * Half) % Half, (l + Half) % Half>>
\* rotate left by 1
Rotl1(a) == <<(2 * a[1] + (a[2] \div 32768)) % Half,
              (2 * a[2] + (a[1] \div 32768)) % Half>>
\* rotate right by 1
Rotr1(a) == <<(a[1] \div 2) + 32768 * (a[2] % 2),
              (a[2] \div 2) + 32768 * (a[1] % 2)>>
Swap16(a) == <<a[2], a[1]>>

\* 0xa282ead8
kMaskDelta == <<41602, 60120>>
\* ((crc >> 15) | (crc << 17)) + kMaskDelta
Mask(crc) == Add32(Rotl1(Swap16(crc)), kMaskDelta)
\* rot = masked - kMaskDelta; (rot >> 17) | (rot << 15)
Unmask(masked) == Rotr1(Swap16(Sub32(masked, kMaskDelta)))

RECURSIVE Sum32(_, _, _)
\* a running pair (sum of bytes, sum of the sums) over the bytes of d
Sum32(d, a, b) ==
  IF d = <<>> THEN <<b % Half, a % Half>>
  ELSE Sum32(Tail(d), (a + Head(d)) % Half, (b + a + Head(d)) % Half)

\* crc32c::Value(data, n): a stand-in hash of the same signature
Crc32cValue(d) == Sum32(d, 1, 0)
\* XXH32(data, n, seed): a second stand-in hash, of another family
XXH32(d, seed) == Sum32(d, 40503 + seed, 7)

Take(d, k) == SubSeq(d, 1, k)
Zeros(k) == [i \in 1..k |-> 0]

-----------------------------------------------------------------------------
(* Blocks on disk, BlockContents, slices and buffers *)

\* payload || tag || stored checksum (4 bytes, little-endian)
MakeBlock(payload, tag, stored) == payload \o <<tag>> \o EncodeFixed32(stored)

\* the checksum a writer of kind k stores for payload || tag
StoredChecksum(k, d) ==
  IF k = kCRC32c THEN Mask(Crc32cValue(d)) ELSE XXH32(d, 0)

\* one bit of the stored checksum flipped
FlipBit(v) == <<v[1], IF v[2] % 2 = 0 THEN v[2] + 1 ELSE v[2] - 1>>

BlockContents(data, cachable, compression, owned) ==
  [data |-> data, cachable |-> cachable, compression_type |-> compression,
   owned |-> owned]

\* a default-constructed BlockContents
EmptyContents == BlockContents(<<>>, FALSE, kNoCompression, FALSE)

\* Slice(ptr, size): the buffer it points into and its length
Slice(buf, size) == [buf |-> buf, size |-> size]
EmptySlice == Slice("none", 0)

\* the bytes a slice points at; (data() + k) may lie past size() inside the buffer
BytesAt(mem, slice) == mem[slice.buf]

-----------------------------------------------------------------------------
(* Decompression: UncompressBlockContentsForCompressionType *)

KnownCodecs == {1, 2, 3, 4, 5, 6, 7, 64}

CorruptMsg(t) ==
  CASE t = 1 -> "Snappy not supported or corrupted Snappy compressed block contents"
    [] t = 2 -> "Zlib not supported or corrupted Zlib compressed block contents"
    [] t = 3 -> "Bzip2 not supported or corrupted Bzip2 compressed block contents"
    [] t = 4 -> "LZ4 not supported or corrupted LZ4 compressed block contents"
    [] t = 5 -> "LZ4HC not supported or corrupted LZ4HC compressed block contents"
    [] t = 6 -> "XPRESS not supported or corrupted XPRESS compressed block contents"
    [] OTHER -> "ZSTD not supported or corrupted ZSTD compressed block contents"

\* the codec libraries: a stand-in whose input is a nonzero header byte
\* followed by the uncompressed bytes; anything else is corrupt
CodecUncompress(t, payload) ==
  IF payload # <<>> /\ Head(payload) # 0
    THEN [ok |-> TRUE, out |-> Tail(payload)]
    ELSE [ok |-> FALSE, out |-> <<>>]

\* a decompressor that hands out the stored bytes whatever the tag is
UncompressBlockContentsForCompressionType_Passthrough(data, n, old, t) ==
  [status |-> StatusOK,
   contents |-> BlockContents(Take(data, n), TRUE, kNoCompression, TRUE)]

\* returns the status and the caller's contents afterwards
UncompressBlockContentsForCompressionType(data, n, old, t) ==
  IF t \in KnownCodecs
    THEN LET r == CodecUncompress(t, Take(data, n)) IN
         IF r.ok
           THEN [status |-> StatusOK,
                 contents |-> BlockContents(r.out, TRUE, kNoCompression, TRUE)]
           ELSE [status |-> Corruption(CorruptMsg(t)),
                 contents |-> old]
    ELSE [status |-> Corruption("bad block type"), contents |-> old]

UncompressBlockContents(data, n, old) ==
  UncompressBlockContentsForCompressionType(data, n, old, data[n + 1])

-----------------------------------------------------------------------------
(* ReadBlockContext *)

\* the positional read: what Read() / RequestRead() or the I/O completion
\* delivers.  rd is the reader's outcome, scratch the buffer handed to it.
\* Returns the status, the slice and the memory afterwards.
ReaderDeliver(i, mem, scratch) ==
  IF ~ok(i.rd.status)
    THEN [status |-> i.rd.status, slice |-> EmptySlice, mem |-> mem]
    ELSE LET bytes == IF i.rd.short
                        THEN Take(i.block, Len(i.block) - 1)
                        ELSE i.block
         IN IF i.rd.where = "scratch"
              THEN [status |-> i.rd.status,
                    slice |-> Slice(scratch, Len(bytes)),
                    mem |-> [mem EXCEPT ![scratch] = bytes]]
              ELSE [status |-> i.rd.status,
                    slice |-> Slice("reader", Len(bytes)),
                    mem |-> [mem EXCEPT !.reader = bytes]]

\* a checksum stage that accepts whatever the trailer holds
VerifyChecksum_Accept(i, s, data, n) == s

\* the checksum stage of OnReadBlockComplete: slice holds n + 5 bytes
VerifyChecksum(i, s, data, n) ==
  LET value == DecodeFixed32(SubSeq(data, n + 2, n + 5))
      known == i.checksum_type \in {kCRC32c, kxxHash}
      expect == IF i.checksum_type = kCRC32c THEN Unmask(value) ELSE value
      actual == IF i.checksum_type = kCRC32c
                  THEN Crc32cValue(Take(data, n + 1))
                  ELSE XXH32(Take(data, n + 1), 0)
  IN IF ~known THEN Corruption("unknown checksum type")
     ELSE IF actual # expect THEN Corruption("block checksum mismatch")
     ELSE s

\* a completion that looks at the slice without looking at the read's status
OnReadBlockComplete_IgnoreStatus(i, status, slice, mem) ==
  IF slice.size # i.n + kBlockTrailerSize
    THEN [status |-> Corruption("truncated block read"), ev |-> <<>>]
  ELSE IF i.verify_checksums
    THEN [status |-> VerifyChecksum(i, status, BytesAt(mem, slice), i.n),
          ev |-> <<"checksum">>]
  ELSE [status |-> status, ev |-> <<>>]

\* returns the status and the stages it ran
OnReadBlockComplete(i, status, slice, mem) ==
  IF ~ok(status) THEN [status |-> status, ev |-> <<>>]
  ELSE IF slice.size # i.n + kBlockTrailerSize
    THEN [status |-> Corruption("truncated block read"), ev |-> <<>>]
  ELSE IF i.verify_checksums
    THEN [status |-> VerifyChecksum(i, status, BytesAt(mem, slice), i.n),
          ev |-> <<"checksum">>]
  ELSE [status |-> status, ev |-> <<>>]

-----------------------------------------------------------------------------
(* ReadBlockContentsContext *)

\* a freshly constructed context: inclass_buf_ is uninitialised storage
NewContext(i) ==
  [state |-> "live",
   mem |-> [inclass |-> i.garbage, heap |-> <<>>, reader |-> <<>>,
           caller |-> i.garbage],
   heap_set |-> FALSE,
   is_read_block |-> FALSE,
   result |-> EmptySlice]

NoContext ==
  [state |-> "none",
   mem |-> [inclass |-> <<>>, heap |-> <<>>, reader |-> <<>>,
           caller |-> <<>>],
   heap_set |-> FALSE,
   is_read_block |-> FALSE,
   result |-> EmptySlice]

\* PersistentCacheHelper::LookupUncompressedPage / LookupRawPage: the answer
\* of the configured cache for the handle
Lookup(i) == i.lookup

\* a probe that does not see the uncompressed tier's hit
CheckPersistentCache_NoHit(i, c, cont) ==
  [status |-> NotFound, need_decompression |-> TRUE, ctx |-> c,
   contents |-> cont, ev |-> <<"S0">>]

\* returns status, need_decompression, the context and the contents afterwards
CheckPersistentCache(i, c, cont) ==
  LET unc == i.cache = "uncompressed"
      st1 == Lookup(i)
  IN
  IF unc /\ ok(st1)
    THEN [status |-> st1, need_decompression |-> FALSE, ctx |-> c,
          contents |-> i.cached, ev |-> <<"S0", "lookup_uncompressed">>]
    ELSE
      LET raw == i.cache = "compressed"
          st2 == IF raw THEN Lookup(i) ELSE NotFound
          c2 == IF raw /\ ok(st2)
                  THEN [c EXCEPT !.heap_set = TRUE, !.mem.heap = i.block,
                                 !.result = Slice("heap", i.n)]
                  ELSE c
      IN [status |-> st2, need_decompression |-> TRUE, ctx |-> c2,
          contents |-> cont,
          ev |-> <<"S0">> \o (IF unc THEN <<"lookup_uncompressed">> ELSE <<>>)
                          \o (IF raw THEN <<"lookup_raw">> ELSE <<>>)]

\* the scratch buffer of the disk read: inclass_buf_, or a heap buffer for a
\* block that does not fit
ConstructReadBlockContext(i, c) ==
  IF i.big
    THEN [c EXCEPT !.is_read_block = TRUE, !.heap_set = TRUE,
                   !.mem.heap = i.garbage]
    ELSE [c EXCEPT !.is_read_block = TRUE]

UsedBuf(c) == IF c.heap_set THEN "heap" ELSE "inclass"

FillRaw(i) == i.fill_cache /\ i.cache = "compressed"
FillUncompressed(i) == i.fill_cache /\ i.cache = "uncompressed"

\* prepends the stages run before r's to r's
PrependEvents(ev, r) == [r EXCEPT !.ev = ev \o r.ev]

\* a raw insert made whenever the cache is compressed, fill_cache or not
RawInsert_IgnoreFillCache(i, c) ==
  IF i.cache = "compressed"
    THEN <<Take(c.mem[UsedBuf(c)], i.n + kBlockTrailerSize)>>
    ELSE <<>>

\* the raw insert: used_buf, n + kBlockTrailerSize bytes of it
RawInsert(i, c) ==
  IF FillRaw(i)
    THEN <<Take(c.mem[UsedBuf(c)], i.n + kBlockTrailerSize)>>
    ELSE <<>>

\* status = UncompressBlockContents(...): un is what it gave
Uncompressed(c, un) ==
  [status |-> un.status, contents |-> un.contents, ctx |-> c,
   ev |-> <<"decompress">>]

\* a completion that never borrows: it hands out an owned copy of the bytes
\* also when the slice lies outside its buffer
ProduceContents_NeverBorrow(i, c, cont, status, slice, data) ==
  IF i.decompression_requested /\ data[i.n + 1] # kNoCompression
    THEN Uncompressed(c, UncompressBlockContents(data, i.n, cont))
  ELSE [status |-> status,
        contents |-> BlockContents(Take(data, i.n), TRUE, data[i.n + 1], TRUE),
        ctx |-> [c EXCEPT !.heap_set = FALSE, !.mem.heap = <<>>],
        ev |-> <<>>]

\* the three ways *contents_ is produced from the bytes data of the slice
ProduceContents(i, c, cont, status, slice, data) ==
  IF i.decompression_requested /\ data[i.n + 1] # kNoCompression
    THEN Uncompressed(c, UncompressBlockContents(data, i.n, cont))
  ELSE IF slice.buf # UsedBuf(c)
    THEN [status |-> status,
          contents |-> BlockContents(Take(data, i.n), FALSE, data[i.n + 1],
                                     FALSE),
          ctx |-> c, ev |-> <<>>]
  ELSE [status |-> status,
        contents |-> BlockContents(Take(c.mem[UsedBuf(c)], i.n), TRUE,
                                   data[i.n + 1], TRUE),
        ctx |-> [c EXCEPT !.heap_set = FALSE, !.mem.heap = <<>>],
        ev |-> <<>>]

\* an insert that leaves out what is compressed or not cachable
UncompressedInsert_Filtered(i, r) ==
  IF /\ ok(r.status) /\ FillUncompressed(i)
     /\ r.contents.cachable /\ r.contents.compression_type = kNoCompression
    THEN <<r.contents>> ELSE <<>>

\* an insert that does not look at the status of the read
UncompressedInsert_AnyStatus(i, r) ==
  IF FillUncompressed(i) THEN <<r.contents>> ELSE <<>>

\* the uncompressed insert: *contents_ as produced, r
UncompressedInsert(i, r) ==
  IF ok(r.status) /\ FillUncompressed(i) THEN <<r.contents>> ELSE <<>>

\* the result of S2 with the inserts made: raw before the contents r were
\* produced, unc after
Filled(r, raw, unc) ==
  [status |-> r.status, ctx |-> r.ctx, contents |-> r.contents,
   ev |-> (IF raw # <<>> THEN <<"insert_raw">> ELSE <<>>) \o r.ev
          \o (IF unc # <<>> THEN <<"insert_uncompressed">> ELSE <<>>),
   raw |-> raw, unc |-> unc]

FillCaches(i, raw, r) == Filled(r, raw, UncompressedInsert(i, r))

\* S2 of OnReadBlockContentsComplete: after the read and its verification
DecompressAndFill(i, c, cont, status, slice) ==
  FillCaches(i, RawInsert(i, c),
             ProduceContents(i, c, cont, status, slice, BytesAt(c.mem, slice)))

\* OnReadBlockContentsComplete after the block's verification gave rb
AfterReadBlock(i, c, cont, slice, rb) ==
  IF ~ok(rb.status)
    THEN [status |-> rb.status, ctx |-> c, contents |-> cont,
          ev |-> rb.ev, raw |-> <<>>, unc |-> <<>>]
    ELSE PrependEvents(rb.ev, DecompressAndFill(i, c, cont, rb.status, slice))

\* a completion that verifies the slice whether or not it came from a read
OnReadBlockContentsComplete_AlwaysVerify(i, c, cont, s, slice) ==
  AfterReadBlock(i, c, cont, slice, OnReadBlockComplete(i, s, slice, c.mem))

\* returns the status, the context, the caller's contents, the stages run and
\* the persistent-cache inserts made
OnReadBlockContentsComplete(i, c, cont, s, slice) ==
  AfterReadBlock(i, c, cont, slice,
    IF c.is_read_block
      THEN OnReadBlockComplete(i, s, slice, c.mem)
      ELSE [status |-> s, ev |-> <<>>])

\* a pipeline that takes every answer but NotFound for a hit
ServedByCache_AnyAnswer(s) == ~IsNotFound(s)

\* if (status.ok()) after CheckPersistentCache: the cache served the read
ServedByCache(s) == ok(s)

\* the context after the reader delivered rd, and the read's status
Delivered(c, rd) ==
  [ctx |-> [c EXCEPT !.mem = rd.mem, !.result = rd.slice],
   status |-> rd.status]

\* Read() on the context's scratch buffer
ReadInto(i, c, scratch) == Delivered(c, ReaderDeliver(i, c.mem, scratch))

\* OnReadBlockContentsComplete(status, context.result_)
CompleteRead(i, cont, d) ==
  OnReadBlockContentsComplete(i, d.ctx, cont, d.status, d.ctx.result)

\* the scratch buffer of a constructed context
ReadIntoScratch(i, c) == ReadInto(i, c, UsedBuf(c))

\* ConstructReadBlockContext, Read(), then the completion, inline
ReadAndComplete(i, c, cont) ==
  PrependEvents(<<"read", "read_done">>,
    CompleteRead(i, cont, ReadIntoScratch(i, ConstructReadBlockContext(i, c))))

\* the return of an entry point whose probe p served the read
ServeFromCache(i, p) ==
  IF p.need_decompression
    THEN PrependEvents(p.ev,
           OnReadBlockContentsComplete(i, p.ctx, p.contents, p.status,
                                       p.ctx.result))
    ELSE [status |-> p.status, ctx |-> p.ctx, contents |-> p.contents,
          ev |-> p.ev, raw |-> <<>>, unc |-> <<>>]

\* ReadContents after CheckPersistentCache gave p
AfterProbe(i, p) ==
  IF ServedByCache(p.status)
    THEN ServeFromCache(i, p)
    ELSE PrependEvents(p.ev, ReadAndComplete(i, p.ctx, p.contents))

\* ReadBlockContentsContext::ReadContents, the synchronous entry point
ReadContentsOp(i) ==
  AfterProbe(i, CheckPersistentCache(i, NewContext(i), EmptyContents))

-----------------------------------------------------------------------------
(* Varints, BlockHandle and Footer *)

\* a value of 2^28 or more: the model keeps no such number
Big == -2

RECURSIVE PutVarint64(_)
\* seven bits a byte, low bits first, the high bit set on all but the last
PutVarint64(v) ==
  IF v < 128 THEN <<v>> ELSE <<(v % 128) + 128>> \o PutVarint64(v \div 128)

RECURSIVE GetVarint(_, _, _, _, _)
\* the loop of GetVarint64Ptr / GetVarint32Ptr: k bytes read so far, of at
\* most limit; acc is the value of their bits
GetVarint(input, limit, k, acc, mult) ==
  IF input = <<>> \/ k >= limit
    THEN [ok |-> FALSE, value |-> 0, rest |-> input]
    ELSE LET byte == Head(input)
             bits == byte % 128
             a2 == IF acc = Big \/ (k >= 4 /\ bits # 0)
                     THEN Big ELSE IF k >= 4 THEN acc ELSE acc + bits * mult
             m2 == IF k >= 4 THEN mult ELSE mult * 128
         IN IF byte >= 128
              THEN GetVarint(Tail(input), limit, k + 1, a2, m2)
              ELSE [ok |-> TRUE, value |-> a2, rest |-> Tail(input)]

GetVarint64(input) == GetVarint(input, 10, 0, 0, 1)
GetVarint32(input) == GetVarint(input, 5, 0, 0, 1)

\* BlockHandle(): both fields ~0
UninitHandle == [offset |-> -1, size |-> -1]
\* BlockHandle::kNullBlockHandle
kNullBlockHandle == [offset |-> 0, size |-> 0]

\* an encoder that writes the size before the offset
HandleEncodeTo_SizeFirst(h) == PutVarint64(h.size) \o PutVarint64(h.offset)

\* BlockHandle::EncodeTo
HandleEncodeTo(h) == PutVarint64(h.offset) \o PutVarint64(h.size)

\* a decoder without the reset: a failure leaves in a fresh handle what the
\* GetVarint64 calls stored
HandleDecoded_KeepOffset(o, z) ==
  IF o.ok /\ z.ok
    THEN [status |-> StatusOK,
          handle |-> [offset |-> o.value, size |-> z.value],
          rest |-> z.rest]
    ELSE [status |-> Corruption("bad block handle"),
          handle |-> [offset |-> IF o.ok THEN o.value ELSE UninitHandle.offset,
                      size |-> UninitHandle.size],
          rest |-> z.rest]

\* the end of BlockHandle::DecodeFrom: o and z are what the two GetVarint64
\* calls gave
HandleDecoded(o, z) ==
  IF o.ok /\ z.ok
    THEN [status |-> StatusOK,
          handle |-> [offset |-> o.value, size |-> z.value],
          rest |-> z.rest]
    ELSE [status |-> Corruption("bad block handle"),
          handle |-> [offset |-> 0, size |-> 0],
          rest |-> z.rest]

\* GetVarint64(input, &offset_) && GetVarint64(input, &size_)
HandleDecodeSize(o) ==
  HandleDecoded(o, IF o.ok THEN GetVarint64(o.rest)
                           ELSE [ok |-> FALSE, value |-> 0, rest |-> o.rest])

\* BlockHandle::DecodeFrom: the status, the handle and the input afterwards
HandleDecodeFrom(h, input) == HandleDecodeSize(GetVarint64(input))

\* the table magic numbers, as <<high 32 bits, low 32 bits>>
kBlockBasedTableMagicNumber == <<<<35042, 16823>>, <<34292, 53239>>>>
kLegacyBlockBasedTableMagicNumber == <<<<56135, 29988>>, <<35712, 64343>>>>
kPlainTableMagicNumber == <<<<33346, 8854>>, <<25535, 38244>>>>
kLegacyPlainTableMagicNumber == <<<<20276, 6379>>, <<31375, 5040>>>>
\* Footer::kInvalidTableMagicNumber
kInvalidTableMagicNumber == <<<<0, 0>>, <<0, 0>>>>

kMaxEncodedLength == 20
kVersion0EncodedLength == 48
kNewVersionsEncodedLength == 53
kMinEncodedLength == 53
kMagicNumberLengthByte == 8

\* a test that knows the legacy block-based magic number only
IsLegacyFooterFormat_BlockBasedOnly(magic) ==
  magic = kLegacyBlockBasedTableMagicNumber

IsLegacyFooterFormat(magic) ==
  magic \in {kLegacyBlockBasedTableMagicNumber, kLegacyPlainTableMagicNumber}

\* a decoder that keeps a legacy magic number as it is
UpconvertLegacyFooterFormat_Keep(magic) == magic

UpconvertLegacyFooterFormat(magic) ==
  IF magic = kLegacyBlockBasedTableMagicNumber THEN kBlockBasedTableMagicNumber
  ELSE IF magic = kLegacyPlainTableMagicNumber THEN kPlainTableMagicNumber
  ELSE kInvalidTableMagicNumber

\* Footer(): nothing initialised
UninitFooter ==
  [table_magic_number |-> kInvalidTableMagicNumber, version |-> <<0, 0>>,
   checksum |-> kCRC32c, metaindex_handle |-> UninitHandle,
   index_handle |-> UninitHandle]

\* dst->resize(len): zero padding up to len bytes
PadTo(d, len) == d \o Zeros(len - Len(d))

\* Footer::EncodeTo: the bytes appended to dst
FooterEncodeTo(f) ==
  IF IsLegacyFooterFormat(f.table_magic_number)
    THEN PadTo(HandleEncodeTo(f.metaindex_handle)
                 \o HandleEncodeTo(f.index_handle), 2 * kMaxEncodedLength)
           \o EncodeFixed32(f.table_magic_number[2])
           \o EncodeFixed32(f.table_magic_number[1])
    ELSE PadTo(<<f.checksum>> \o HandleEncodeTo(f.metaindex_handle)
                 \o HandleEncodeTo(f.index_handle),
               kNewVersionsEncodedLength - 12)
           \o EncodeFixed32(f.version)
           \o EncodeFixed32(f.table_magic_number[2])
           \o EncodeFixed32(f.table_magic_number[1])

LastBytes(d, k) == SubSeq(d, Len(d) - k + 1, Len(d))

\* the magic number in the last 8 bytes, as <<magic_hi, magic_lo>>
FooterMagic(input) ==
  <<DecodeFixed32(SubSeq(input, Len(input) - 3, Len(input))),
    DecodeFixed32(SubSeq(input, Len(input) - 7, Len(input) - 4))>>

\* a decoder that takes the low word of the magic number for the version
FooterVersion_MagicWord(input) ==
  DecodeFixed32(SubSeq(input, Len(input) - 7, Len(input) - 4))

\* DecodeFixed32(magic_ptr - 4)
FooterVersion(input) ==
  DecodeFixed32(SubSeq(input, Len(input) - 11, Len(input) - 8))

\* the end of Footer::DecodeFrom: m and x are what the two handles' DecodeFrom
\* gave
FooterDecoded(f, m, x) ==
  [status |-> x.status,
   footer |-> [f EXCEPT !.metaindex_handle = m.handle,
                        !.index_handle = x.handle],
   rest |-> IF ok(x.status) THEN <<>> ELSE x.rest]

\* result = metaindex_handle_.DecodeFrom(input);
\* if (result.ok()) result = index_handle_.DecodeFrom(input);
FooterDecodeIndex(f, m) ==
  FooterDecoded(f, m,
    IF ok(m.status)
      THEN HandleDecodeFrom(f.index_handle, m.rest)
      ELSE [status |-> m.status, handle |-> f.index_handle, rest |-> m.rest])

\* after the checksum type: ck is what GetVarint32 gave, or the legacy
\* format's kCRC32c
FooterDecodeHandles(f, ck) ==
  IF ~ck.ok
    THEN [status |-> Corruption("bad checksum type"), footer |-> f,
          rest |-> ck.rest]
    ELSE FooterDecodeIndex([f EXCEPT !.checksum = ck.value],
                           HandleDecodeFrom(f.metaindex_handle, ck.rest))

\* after set_table_magic_number: f has the magic number, upconverted
FooterDecodeBody(f, input, legacy) ==
  IF legacy
    THEN FooterDecodeHandles(
           [f EXCEPT !.version = <<0, 0>>, !.checksum = kCRC32c],
           [ok |-> TRUE, value |-> kCRC32c,
            rest |-> LastBytes(input, kVersion0EncodedLength)])
  ELSE IF Len(input) < kNewVersionsEncodedLength
    THEN [status |-> Corruption("input is too short to be an sstable"),
          footer |-> [f EXCEPT !.version = FooterVersion(input)],
          rest |-> input]
  ELSE FooterDecodeHandles(
         [f EXCEPT !.version = FooterVersion(input)],
         GetVarint32(LastBytes(input, kNewVersionsEncodedLength)))

FooterDecodeMagic(f, input, magic) ==
  FooterDecodeBody(
    [f EXCEPT !.table_magic_number =
       IF IsLegacyFooterFormat(magic) THEN UpconvertLegacyFooterFormat(magic)
                                      ELSE magic],
    input, IsLegacyFooterFormat(magic))

\* Footer::DecodeFrom on an uninitialised footer f: the status, the footer and
\* the input afterwards
FooterDecodeFrom(f, input) == FooterDecodeMagic(f, input, FooterMagic(input))

-----------------------------------------------------------------------------
(* The inputs of a round *)

\* payloads: a header byte followed by zeros, of every length up to MaxSize
Payloads ==
  {<<>>} \cup {<<b>> \o Zeros(k) : b \in 0..MaxByte, k \in 0..(MaxSize - 1)}

\* kNoCompression, kSnappyCompression and a tag no codec has (0x77)
Tags == {kNoCompression, 1, 119}

\* footer.checksum(): kNoChecksum, kCRC32c, kxxHash
ChecksumTypes == {0, kCRC32c, kxxHash}

\* the blocks a writer of checksum kind k stores, for every payload and tag
WrittenBlocks(k) ==
  {MakeBlock(pt[1], pt[2], StoredChecksum(k, pt[1] \o <<pt[2]>>)) :
     pt \in Payloads \X Tags}

\* the same with one bit of the stored checksum flipped
DamagedBlocks(k) ==
  {MakeBlock(pt[1], pt[2], FlipBit(StoredChecksum(k, pt[1] \o <<pt[2]>>))) :
     pt \in Payloads \X Tags}

BlocksCRC32c == WrittenBlocks(kCRC32c) \cup DamagedBlocks(kCRC32c)
BlocksxxHash == WrittenBlocks(kxxHash) \cup DamagedBlocks(kxxHash)
BlocksNoChecksum == WrittenBlocks(kCRC32c)

\* the blocks of a file whose footer names checksum kind ct; a footer of no
\* known kind comes with CRC32C trailers
Blocks(ct) ==
  IF ct = kCRC32c THEN BlocksCRC32c
  ELSE IF ct = kxxHash THEN BlocksxxHash
  ELSE BlocksNoChecksum

\* what the reader answers: an error, the whole block or all but its last
\* byte, in the buffer it was given or in its own storage; its status may
\* carry the async bit
ReaderOutcomes ==
  {[status |-> MkStatus("IOError", "NoSpace", "No space left on device"),
    short |-> FALSE, where |-> "scratch"],
   [status |-> SetAsync(MkStatus("ShutdownInProgress", "None", ""), TRUE),
    short |-> FALSE, where |-> "scratch"],
   [status |-> StatusOK, short |-> FALSE, where |-> "scratch"],
   [status |-> StatusOK, short |-> FALSE, where |-> "reader"],
   [status |-> StatusOK, short |-> TRUE, where |-> "scratch"]}

\* what the uninitialised scratch buffer of len bytes may hold; the pipeline
\* reads it without the reader having written to it only for the raw insert of
\* a block the reader delivered in its own storage
Garbage(rd, fc, cs, len) ==
  IF /\ ok(rd.status) /\ rd.where = "reader"
     /\ fc /\ cs.cache = "compressed" /\ ~ok(cs.lookup)
    THEN {Zeros(len), [k \in 1..len |-> 255]}
    ELSE {Zeros(len)}

\* the persistent cache: its kind, its answer to the lookup, the page it holds
CacheStates ==
  {[cache |-> "none", lookup |-> NotFound, cached |-> EmptyContents]}
  \cup
  {[cache |-> "compressed", lookup |-> l, cached |-> EmptyContents] :
     l \in {StatusOK, NotFound, MkStatus("IOError", "None", "cache")}}
  \cup
  {[cache |-> "uncompressed", lookup |-> l,
    cached |-> IF ok(l) THEN BlockContents(<<9>>, TRUE, kNoCompression, TRUE)
                        ELSE EmptyContents] :
     l \in {StatusOK, NotFound, MkStatus("IOError", "None", "cache")}}

MkInput(kind, block, rd, g, big, vc, fc, dr, ct, cs) ==
  [kind |-> kind, n |-> Len(block) - kBlockTrailerSize, block |-> block,
   rd |-> rd, garbage |-> g, big |-> big,
   verify_checksums |-> vc, fill_cache |-> fc, decompression_requested |-> dr,
   checksum_type |-> ct, cache |-> cs.cache, lookup |-> cs.lookup,
   cached |-> cs.cached]

\* the inputs of a ReadBlockContents / RequestContentstRead
ContentsInput(i) ==
  \E rd \in ReaderOutcomes, big \in BOOLEAN, vc \in BOOLEAN,
     fc \in BOOLEAN, dr \in BOOLEAN, ct \in ChecksumTypes, cs \in CacheStates :
    \E b \in Blocks(ct) :
      \E g \in Garbage(rd, fc, cs, Len(b)) :
        i = MkInput("contents", b, rd, g, big, vc, fc, dr, ct, cs)

\* a block read has no cache, no decompression and the caller's buffer
BlockInput(i) ==
  \E rd \in ReaderOutcomes, vc \in BOOLEAN, ct \in ChecksumTypes :
    \E b \in Blocks(ct) :
      i = MkInput("block", b, rd, Zeros(Len(b)), FALSE, vc, FALSE, FALSE, ct,
            [cache |-> "none", lookup |-> NotFound, cached |-> EmptyContents])

\* footers a table builder writes
Footers ==
  {[table_magic_number |-> m, version |-> v, checksum |-> c,
    metaindex_handle |-> [offset |-> 0, size |-> 130],
    index_handle |-> [offset |-> 135, size |-> 7]] :
     m \in {kBlockBasedTableMagicNumber, kPlainTableMagicNumber},
     v \in {<<0, 1>>, <<0, 2>>}, c \in {kCRC32c, kxxHash}}
  \cup
  {[table_magic_number |-> m, version |-> <<0, 0>>, checksum |-> kCRC32c,
    metaindex_handle |-> [offset |-> 0, size |-> 130],
    index_handle |-> [offset |-> 135, size |-> 7]] :
     m \in {kLegacyBlockBasedTableMagicNumber, kLegacyPlainTableMagicNumber}}

\* bytes a..b of d overwritten with 0xff
Smash(d, a, b) == [k \in 1..Len(d) |-> IF a <= k /\ k <= b THEN 255 ELSE d[k]]

\* the last bytes of a file: a footer as written, after some data bytes, and
\* damaged ones: an over-long varint in the first handle, an over-long
\* checksum varint, a file of 40 bytes, a file that is the footer less its
\* first byte, a file that is the footer alone
TailsOf(e, h) ==
  {Zeros(kNewVersionsEncodedLength - Len(e)) \o e,
   Zeros(kNewVersionsEncodedLength - Len(e)) \o Smash(e, h, h + 10),
   Zeros(kNewVersionsEncodedLength - Len(e)) \o Smash(e, 1, 5),
   LastBytes(e, 40),
   LastBytes(e, Len(e) - 1),
   e}

FileTails ==
  UNION {TailsOf(FooterEncodeTo(f),
                 IF IsLegacyFooterFormat(f.table_magic_number) THEN 1 ELSE 2)
         : f \in Footers}

FooterInput(i) ==
  \E t \in FileTails,
     st \in {StatusOK, MkStatus("IOError", "None", "read failed")},
     e \in {kInvalidTableMagicNumber, kBlockBasedTableMagicNumber,
            kPlainTableMagicNumber} :
    i = [kind |-> "footer", tail |-> t, enforce_table_magic_number |-> e,
         rd |-> [status |-> st, short |-> FALSE, where |-> "scratch"]]

-----------------------------------------------------------------------------
(* The state machine *)

\* no encoder or decoder is called in the round
CodecIdle ==
  /\ cin = [kind |-> "none"]
  /\ dst = <<>>
  /\ cpc = "idle"
  /\ dec = <<>>

\* the client holds default-constructed Status objects and leaves them alone
StatusIdle ==
  /\ sobj = [n \in StatusNames |-> StatusOK]
  /\ op = [name |-> "none"]

\* no read was started
PipelineIdle ==
  /\ run = "none"
  /\ pc = "idle"
  /\ io = "none"
  /\ ctx = NoContext
  /\ frees = 0
  /\ uaf = FALSE
  /\ ret = <<>>
  /\ ioret = <<>>
  /\ cbs = <<>>
  /\ contents = EmptyContents
  /\ events = <<>>
  /\ rawIns = <<>>
  /\ uncIns = <<>>
  /\ syncRes = <<>>
  /\ footer = UninitFooter

Init ==
  /\ ContentsInput(inp) \/ BlockInput(inp) \/ FooterInput(inp)
  /\ CodecIdle
  /\ StatusIdle
  /\ run = "none"
  /\ pc = "idle"
  /\ io = "none"
  /\ ctx = NoContext
  /\ frees = 0
  /\ uaf = FALSE
  /\ ret = <<>>
  /\ ioret = <<>>
  /\ cbs = <<>>
  /\ contents = EmptyContents
  /\ events = <<>>
  /\ rawIns = <<>>
  /\ uncIns = <<>>
  /\ syncRes = <<>>
  /\ footer = UninitFooter

\* the context after its destructor ran on task who
Destroyed(c, who) == [c EXCEPT !.state = who]

Live(c) == c.state = "live"
Freed(c) == c.state \in {"freed_by_request", "freed_by_completion"}

\* a request function that keeps the context when the read is pending
ReleasesContext_Never(s) == FALSE

\* the request function gives the context up to the completion when the read
\* is pending: if (status.IsIOPending()) { context.release(); return status; }
ReleasesContext(s) == IsIOPending(s)

\* a completion that hands the status on as it is
MarkAsync_Keep(s) == s

\* OnIoCompletion: s.async(true) before the callback is invoked
MarkAsync(s) == SetAsync(s, TRUE)

\* a completion that invokes the callback twice
InvokeCallback_Twice(calls, s) == calls \o <<s, s>>

\* client_cb_.Invoke(s): the callback's calls so far, and one more
InvokeCallback(calls, s) == Append(calls, s)

\* a completion that forgets the status the I/O ended with
ContentsIoCompleted_DropStatus(i, c, cont, s, slice) ==
  OnReadBlockContentsComplete(i, c, cont, StatusOK, slice)

\* the body of ReadBlockContentsContext::OnIoCompletion between taking
\* ownership and marking the status
ContentsIoCompleted(i, c, cont, s, slice) ==
  OnReadBlockContentsComplete(i, c, cont, s, slice)

\* the body of ReadBlockContext::OnIoCompletion
BlockIoCompleted(i, s, slice, mem) == OnReadBlockComplete(i, s, slice, mem)

\* ReadBlockContentsContext::ReadContents: the whole synchronous read
ReadContents ==
  /\ inp.kind = "contents"
  /\ run = "none"
  /\ \E r \in {ReadContentsOp(inp)} :
       /\ run' = "ReadContents"
       /\ pc' = "done"
       /\ ret' = <<r.status>>
       /\ contents' = r.contents
       /\ events' = r.ev
       /\ rawIns' = r.raw
       /\ uncIns' = r.unc
       /\ syncRes' = <<[status |-> r.status, contents |-> r.contents]>>
       \* the context lives on the caller's stack
       /\ ctx' = Destroyed(r.ctx, "freed_by_request")
       /\ frees' = 1
  /\ UNCHANGED <<footer, inp, io, uaf, ioret, cbs>>
  /\ UNCHANGED <<codecVars, statusVars>>

\* a round runs the synchronous entry point, then the request, on the same
\* inputs
CanRequest(kind, syncRun) ==
  /\ inp.kind = kind
  /\ run = syncRun
  /\ pc = "done"

\* a request function returning r, the read's final result, itself
ReturnsResult(r) ==
  /\ pc' = "done"
  /\ io' = "none"
  /\ ret' = <<r.status>>
  /\ contents' = r.contents
  /\ events' = r.ev
  /\ rawIns' = r.raw
  /\ uncIns' = r.unc
  /\ ctx' = Destroyed(r.ctx, "freed_by_request")
  /\ frees' = 1

\* ReadBlockContentsContext::RequestContentstRead up to the return of
\* RequestRead; when the read is not pending, up to its own return
RequestContentstRead ==
  /\ CanRequest("contents", "ReadContents")
  /\ run' = "RequestContentstRead"
  /\ \E p \in {CheckPersistentCache(inp, NewContext(inp), EmptyContents)} :
       IF ServedByCache(p.status)
         THEN \* served by the persistent cache
           \E r \in {ServeFromCache(inp, p)} : ReturnsResult(r)
         ELSE
           \/ \* RequestRead returns IOPending: the completion will deliver
              /\ pc' = "submitted"
              /\ io' = "queued"
              /\ ret' = <<>>
              /\ contents' = p.contents
              /\ events' = p.ev \o <<"read">>
              /\ rawIns' = <<>>
              /\ uncIns' = <<>>
              /\ ctx' = ConstructReadBlockContext(inp, p.ctx)
              /\ frees' = 0
           \/ \* RequestRead finishes the read itself
              \E r \in {PrependEvents(p.ev,
                           ReadAndComplete(inp, p.ctx, p.contents))} :
                ReturnsResult(r)
  /\ uaf' = FALSE
  /\ ioret' = <<>>
  /\ cbs' = <<>>
  /\ UNCHANGED <<footer, inp, syncRes>>
  /\ UNCHANGED <<codecVars, statusVars>>

\* the rest of a request function whose RequestRead returned IOPending; the
\* unique_ptr destroys the context on return unless it was released
RequestReturn(name) ==
  /\ run = name
  /\ pc = "submitted"
  /\ pc' = "done"
  /\ ret' = <<IOPending>>
  /\ IF ReleasesContext(IOPending)
       THEN UNCHANGED <<ctx, frees, uaf>>
       ELSE /\ ctx' = Destroyed(ctx, "freed_by_request")
            /\ frees' = frees + 1
            /\ uaf' = (uaf \/ ~Live(ctx))
  /\ UNCHANGED <<footer, inp, run, io, ioret, cbs, contents, events, rawIns, uncIns,
                 syncRes>>
  /\ UNCHANGED <<codecVars, statusVars>>

RequestContentsReturn == RequestReturn("RequestContentstRead")

\* ReadBlockContentsContext::OnIoCompletion, on the I/O completion's task
ContentsOnIoCompletion ==
  /\ run = "RequestContentstRead"
  /\ io = "queued"
  /\ \E d \in {ReadIntoScratch(inp, ctx)} :
       \E r \in {ContentsIoCompleted(inp, d.ctx, contents, d.status,
                                     d.ctx.result)} :
         \E s \in {MarkAsync(r.status)} :
           /\ io' = "completed"
           /\ uaf' = (uaf \/ ~Live(ctx))
           /\ contents' = r.contents
           /\ events' = events \o <<"read_done">> \o r.ev \o <<"callback">>
           /\ rawIns' = r.raw
           /\ uncIns' = r.unc
           /\ cbs' = InvokeCallback(cbs, s)
           /\ ioret' = <<s>>
           /\ ctx' = Destroyed(r.ctx, "freed_by_completion")
           /\ frees' = frees + 1
  /\ UNCHANGED <<footer, inp, run, pc, ret, syncRes>>
  /\ UNCHANGED <<codecVars, statusVars>>

-----------------------------------------------------------------------------
(* ReadBlockContext: the entry points *)

\* a ReadBlockContext on the caller's buffer and result slice
NewBlockContext(i) == [NewContext(i) EXCEPT !.is_read_block = TRUE]

\* s = ctx.OnReadBlockComplete(s, *contents) on the delivered read d
BlockCompleted(i, d) ==
  [status |-> OnReadBlockComplete(i, d.status, d.ctx.result, d.ctx.mem).status,
   ctx |-> d.ctx,
   ev |-> <<"read", "read_done">>
            \o OnReadBlockComplete(i, d.status, d.ctx.result, d.ctx.mem).ev]

\* ReadBlockContext::ReadBlock, the synchronous entry point
ReadBlockOp(i) == BlockCompleted(i, ReadInto(i, NewBlockContext(i), "caller"))

\* the status RequestBlockRead returns when its read was not pending: s, the
\* status of RequestRead, after ctx->OnReadBlockComplete(s, *contents)
RequestBlockReadStatus(s, completed) == s

ReadBlock ==
  /\ inp.kind = "block"
  /\ run = "none"
  /\ \E r \in {ReadBlockOp(inp)} :
       /\ run' = "ReadBlock"
       /\ pc' = "done"
       /\ ret' = <<r.status>>
       /\ events' = r.ev
       /\ syncRes' = <<[status |-> r.status, contents |-> EmptyContents]>>
       /\ ctx' = Destroyed(r.ctx, "freed_by_request")
       /\ frees' = 1
  /\ UNCHANGED <<footer, inp, io, uaf, ioret, cbs, contents, rawIns, uncIns>>
  /\ UNCHANGED <<codecVars, statusVars>>

\* ReadBlockContext::RequestBlockRead up to the return of RequestRead; when
\* the read is not pending, up to its own return
RequestBlockRead ==
  /\ CanRequest("block", "ReadBlock")
  /\ run' = "RequestBlockRead"
  /\ \/ \* RequestRead returns IOPending
        /\ pc' = "submitted"
        /\ io' = "queued"
        /\ ret' = <<>>
        /\ events' = <<"read">>
        /\ ctx' = NewBlockContext(inp)
        /\ frees' = 0
     \/ \* RequestRead finishes the read itself
        \E r \in {ReadBlockOp(inp)} :
        /\ pc' = "done"
        /\ io' = "none"
        /\ ret' = <<RequestBlockReadStatus(inp.rd.status, r.status)>>
        /\ events' = r.ev
        /\ ctx' = Destroyed(r.ctx, "freed_by_request")
        /\ frees' = 1
  /\ uaf' = FALSE
  /\ ioret' = <<>>
  /\ cbs' = <<>>
  /\ UNCHANGED <<footer, inp, contents, rawIns, uncIns, syncRes>>
  /\ UNCHANGED <<codecVars, statusVars>>

RequestBlockReturn == RequestReturn("RequestBlockRead")

\* ReadBlockContext::OnIoCompletion, on the I/O completion's task
BlockOnIoCompletion ==
  /\ run = "RequestBlockRead"
  /\ io = "queued"
  /\ \E d \in {ReadInto(inp, ctx, "caller")} :
       \E r \in {BlockIoCompleted(inp, d.status, d.ctx.result, d.ctx.mem)} :
         \E s \in {MarkAsync(r.status)} :
           /\ io' = "completed"
           /\ uaf' = (uaf \/ ~Live(ctx))
           /\ events' = events \o <<"read_done">> \o r.ev \o <<"callback">>
           /\ cbs' = InvokeCallback(cbs, s)
           /\ ioret' = <<s>>
           /\ ctx' = Destroyed(d.ctx, "freed_by_completion")
           /\ frees' = frees + 1
  /\ UNCHANGED <<footer, inp, run, pc, ret, contents, rawIns, uncIns, syncRes>>
  /\ UNCHANGED <<codecVars, statusVars>>

-----------------------------------------------------------------------------
(* ReadFooterContext *)

\* OnReadFooterComplete after footer_->DecodeFrom(&footer_input_) gave d
FooterChecked(i, d) ==
  IF ~ok(d.status)
    THEN [status |-> d.status, footer |-> d.footer, decoded |-> TRUE]
  ELSE IF /\ i.enforce_table_magic_number # kInvalidTableMagicNumber
          /\ i.enforce_table_magic_number # d.footer.table_magic_number
    THEN [status |-> Corruption("Bad table magic number"),
          footer |-> d.footer, decoded |-> TRUE]
  ELSE [status |-> StatusOK, footer |-> d.footer, decoded |-> TRUE]

\* a completion that looks at the size of the input before the status
OnReadFooterComplete_SizeFirst(i, f, status, slice) ==
  IF Len(slice) < kMinEncodedLength
    THEN [status |-> Corruption("file is too short to be an sstable"),
          footer |-> f, decoded |-> FALSE]
  ELSE IF ~ok(status) THEN [status |-> status, footer |-> f, decoded |-> FALSE]
  ELSE FooterChecked(i, FooterDecodeFrom(f, slice))

\* the status and the caller's footer afterwards, and whether DecodeFrom was
\* called; footer_input_ is the slice the read delivered
OnReadFooterComplete(i, f, status, slice) ==
  IF ~ok(status) THEN [status |-> status, footer |-> f, decoded |-> FALSE]
  ELSE IF Len(slice) < kMinEncodedLength
    THEN [status |-> Corruption("file is too short to be an sstable"),
          footer |-> f, decoded |-> FALSE]
  ELSE FooterChecked(i, FooterDecodeFrom(f, slice))

\* ReadFooterContext::OnIOCompletion, on the I/O completion's task, for a
\* footer read that returned IOPending
FooterOnIOCompletion ==
  /\ inp.kind = "footer"
  /\ run = "none"
  /\ \E r \in {OnReadFooterComplete(inp, footer, inp.rd.status,
                   IF ok(inp.rd.status) THEN inp.tail ELSE <<>>)} :
       \E s \in {MarkAsync(r.status)} :
         /\ run' = "RequestFooterRead"
         /\ pc' = "done"
         /\ io' = "completed"
         /\ ret' = <<IOPending>>
         /\ footer' = r.footer
         /\ events' = <<"read", "read_done">>
                      \o (IF r.decoded THEN <<"decode">> ELSE <<>>)
                      \o <<"callback">>
         /\ cbs' = InvokeCallback(cbs, s)
         /\ ioret' = <<s>>
         /\ ctx' = Destroyed(NoContext, "freed_by_completion")
         /\ frees' = frees + 1
  /\ UNCHANGED <<inp, uaf, contents, rawIns, uncIns, syncRes>>
  /\ UNCHANGED <<codecVars, statusVars>>

\* ReadFooterFromFile: the footer is read and checked on the caller's task
ReadFooterFromFile ==
  /\ inp.kind = "footer"
  /\ run = "none"
  /\ \E r \in {OnReadFooterComplete(inp, footer, inp.rd.status,
                   IF ok(inp.rd.status) THEN inp.tail ELSE <<>>)} :
       /\ run' = "ReadFooterFromFile"
       /\ pc' = "done"
       /\ ret' = <<r.status>>
       /\ footer' = r.footer
       /\ events' = <<"read", "read_done">>
                    \o (IF r.decoded THEN <<"decode">> ELSE <<>>)
       /\ ctx' = Destroyed(NoContext, "freed_by_request")
       /\ frees' = frees + 1
  /\ UNCHANGED <<inp, io, uaf, ioret, cbs, contents, rawIns, uncIns, syncRes>>
  /\ UNCHANGED <<codecVars, statusVars>>

Next ==
  \/ ReadFooterFromFile
  \/ ReadContents
  \/ RequestContentstRead
  \/ RequestContentsReturn
  \/ ContentsOnIoCompletion
  \/ ReadBlock
  \/ RequestBlockRead
  \/ RequestBlockReturn
  \/ BlockOnIoCompletion
  \/ FooterOnIOCompletion

Spec == Init /\ [][Next]_vars

-----------------------------------------------------------------------------
(* BlockHandle and Footer, encoded into a string and decoded from it *)

\* offsets and sizes whose varints take one to four bytes
VarintValues == {0, 127, 128, 16383, 16384, 2097151, 2097152, 268435455}

CodecHandles == {[offset |-> o, size |-> z] : o, z \in VarintValues}

\* footers a table builder writes: the current format with every checksum
\* kind, and the legacy format
CodecFooters ==
  {[table_magic_number |-> m, version |-> v, checksum |-> c,
    metaindex_handle |-> [offset |-> o, size |-> 130],
    index_handle |-> [offset |-> o + 135, size |-> o] ] :
     m \in {kBlockBasedTableMagicNumber, kPlainTableMagicNumber},
     v \in {<<0, 1>>, <<0, 2>>, <<1, 0>>}, c \in {0, kCRC32c, kxxHash},
     o \in {0, 16384, 268435000}}
  \cup
  {[table_magic_number |-> m, version |-> <<0, 0>>, checksum |-> kCRC32c,
    metaindex_handle |-> [offset |-> o, size |-> 130],
    index_handle |-> [offset |-> o + 135, size |-> o]] :
     m \in {kLegacyBlockBasedTableMagicNumber, kLegacyPlainTableMagicNumber},
     o \in {0, 16384, 268435000}}

\* what dst holds before EncodeTo: nothing, or the end of the file's data;
\* the last one reads as a checksum kind and a version where the current
\* format keeps them
Prefixes ==
  {<<>>, Zeros(5), <<255, 255, 255, 255, 255>>, <<9, 2, 2, 0, 0, 0>>}

\* what follows an encoded handle in the decoder's input
Suffixes == {<<>>, <<0>>, <<255, 1>>}

CodecInput(i) ==
  \/ \E f \in CodecFooters, o \in Prefixes :
       i = [kind |-> "footer", value |-> f, original |-> o, suffix |-> <<>>]
  \/ \E h \in CodecHandles, o \in Prefixes, x \in Suffixes :
       i = [kind |-> "handle", value |-> h, original |-> o, suffix |-> x]

CodecInit ==
  /\ inp = [kind |-> "none"]
  /\ PipelineIdle
  /\ StatusIdle
  /\ CodecInput(cin)
  /\ dst = cin.original
  /\ cpc = "ready"
  /\ dec = <<>>

\* footer.EncodeTo(&dst)
FooterEncode ==
  /\ cin.kind = "footer"
  /\ cpc = "ready"
  /\ dst' = dst \o FooterEncodeTo(cin.value)
  /\ cpc' = "encoded"
  /\ UNCHANGED <<cin, dec, pipelineVars, statusVars>>

\* Footer().DecodeFrom(&input) with input the whole string; the function
\* asserts input->size() >= kMinEncodedLength
FooterDecode ==
  /\ cin.kind = "footer"
  /\ cpc = "encoded"
  /\ Len(dst) >= kMinEncodedLength
  /\ dec' = <<FooterDecodeFrom(UninitFooter, dst)>>
  /\ cpc' = "decoded"
  /\ UNCHANGED <<cin, dst, pipelineVars, statusVars>>

\* handle.EncodeTo(&dst)
HandleEncode ==
  /\ cin.kind = "handle"
  /\ cpc = "ready"
  /\ dst' = dst \o HandleEncodeTo(cin.value)
  /\ cpc' = "encoded"
  /\ UNCHANGED <<cin, dec, pipelineVars, statusVars>>

\* BlockHandle().DecodeFrom(&input) with input the appended bytes and what
\* follows them
HandleDecode ==
  /\ cin.kind = "handle"
  /\ cpc = "encoded"
  /\ dec' = <<HandleDecodeFrom(UninitHandle,
                SubSeq(dst, Len(cin.original) + 1, Len(dst)) \o cin.suffix)>>
  /\ cpc' = "decoded"
  /\ UNCHANGED <<cin, dst, pipelineVars, statusVars>>

\* a varint of more than ten bytes
OverlongVarint == [k \in 1..10 |-> 255] \o <<1>>

\* inputs that do not hold both varints of h: its encoding cut short, in the
\* offset, right after it or in the size, and an over-long varint as its
\* offset or as its size
DamagedHandles(h) ==
  {Take(HandleEncodeTo(h), k) : k \in 0..(Len(HandleEncodeTo(h)) - 1)}
    \cup {OverlongVarint \o PutVarint64(h.size),
          PutVarint64(h.offset) \o OverlongVarint}

\* BlockHandle().DecodeFrom(&input) with input a damaged encoding of the
\* handle; dec keeps the result and the input
HandleDecodeDamaged ==
  /\ cin.kind = "handle"
  /\ cpc = "encoded"
  /\ \E x \in DamagedHandles(cin.value) :
       dec' = <<HandleDecodeFrom(UninitHandle, x), x>>
  /\ cpc' = "damaged"
  /\ UNCHANGED <<cin, dst, pipelineVars, statusVars>>

CodecNext ==
  \/ FooterEncode
  \/ FooterDecode
  \/ HandleEncode
  \/ HandleDecode
  \/ HandleDecodeDamaged

CodecSpec == CodecInit /\ [][CodecNext]_vars

-----------------------------------------------------------------------------
(* Status objects of a client: made, assigned, moved and compared *)

StatusCodes == {"NotFound", "Corruption", "IOError", "Aborted"}
SubCodes == {"None", "NoSpace", "MemoryLimit", "Deadlock"}
Messages == {"m"}

\* what the public static helpers return
FactoryValues ==
  {StatusOK}
  \cup {Factory(c, sc) : c \in StatusCodes, sc \in SubCodes}
  \cup {FactoryMsg(c, m) : c \in StatusCodes, m \in Messages}
  \cup {NoSpace, MemoryLimit}
  \cup {NoSpaceMsg(m) : m \in Messages}
  \cup {MemoryLimitMsg(m) : m \in Messages}

StatusInit ==
  /\ inp = [kind |-> "none"]
  /\ PipelineIdle
  /\ CodecIdle
  /\ StatusIdle

\* the objects with a temporary t next to them
WithTemp(t) == [n \in StatusNames \cup {"tmp"} |->
                  IF n = "tmp" THEN t ELSE sobj[n]]
\* the objects with a default-constructed one in place of d
Fresh(d) == [sobj EXCEPT ![d] = StatusOK]
\* the client's objects among objs
Named(objs) == [n \in StatusNames |-> objs[n]]

\* d = Status::X(...): the helper's temporary is moved into d
AssignFactory ==
  \E d \in StatusNames, t \in FactoryValues :
    /\ sobj' = Named(MoveAssign(WithTemp(t), d, "tmp"))
    /\ op' = [name |-> "factory", dst |-> d, src |-> "tmp"]
    /\ UNCHANGED <<pipelineVars, codecVars>>

\* d = s, also with d and s the same object
CopyAssignment ==
  \E d \in StatusNames, s \in StatusNames :
    /\ sobj' = CopyAssign(sobj, d, s)
    /\ op' = [name |-> "copy", dst |-> d, src |-> s]
    /\ UNCHANGED <<pipelineVars, codecVars>>

\* d = std::move(s), also with d and s the same object
MoveAssignment ==
  \E d \in StatusNames, s \in StatusNames :
    /\ sobj' = MoveAssign(sobj, d, s)
    /\ op' = [name |-> "move", dst |-> d, src |-> s]
    /\ UNCHANGED <<pipelineVars, codecVars>>

\* Status d(s): d is constructed anew as Status() and assigned s
CopyConstruct ==
  \E d \in StatusNames : \E s \in StatusNames \ {d} :
    /\ sobj' = CopyAssign(Fresh(d), d, s)
    /\ op' = [name |-> "copy_construct", dst |-> d, src |-> s]
    /\ UNCHANGED <<pipelineVars, codecVars>>

\* Status d(std::move(s))
MoveConstruct ==
  \E d \in StatusNames : \E s \in StatusNames \ {d} :
    /\ sobj' = MoveAssign(Fresh(d), d, s)
    /\ op' = [name |-> "move_construct", dst |-> d, src |-> s]
    /\ UNCHANGED <<pipelineVars, codecVars>>

\* d.async(a)
MarkObject ==
  \E d \in StatusNames, a \in BOOLEAN :
    /\ sobj' = [sobj EXCEPT ![d] = SetAsync(sobj[d], a)]
    /\ op' = [name |-> "async", dst |-> d, src |-> d]
    /\ UNCHANGED <<pipelineVars, codecVars>>

\* d == s and d != s
Compare ==
  \E d \in StatusNames, s \in StatusNames :
    /\ op' = [name |-> "compare", dst |-> d, src |-> s,
              eq |-> StatusEq(sobj[d], sobj[s]),
              ne |-> StatusNe(sobj[d], sobj[s])]
    /\ UNCHANGED <<sobj, pipelineVars, codecVars>>

StatusNext ==
  \/ AssignFactory
  \/ CopyAssignment
  \/ MoveAssignment
  \/ CopyConstruct
  \/ MoveConstruct
  \/ MarkObject
  \/ Compare

StatusSpec == StatusInit /\ [][StatusNext]_vars

-----------------------------------------------------------------------------
(* Properties *)

ContentsRun == run \in {"ReadContents", "RequestContentstRead"}
RequestRun == run \in {"RequestContentstRead", "RequestBlockRead"}

\* the entry point returned a final status itself
InlineDone == pc = "done" /\ io = "none"
\* the I/O completion has run
Completed == io = "completed"
\* the read has reached its terminal state
Finished == InlineDone \/ Completed

\* the terminal status as the client receives it: through the callback after
\* a completion, as the return value otherwise
Final == IF Completed THEN cbs[Len(cbs)] ELSE ret[1]

SameOutcome(a, b) == a.code = b.code /\ a.subcode = b.subcode /\ a.msg = b.msg

Occurs(e) == \E k \in 1..Len(events) : events[k] = e
Count(e) == Cardinality({k \in 1..Len(events) : events[k] = e})

\* the trailer holds what a writer of the footer's checksum kind stores for
\* payload || tag
WriterChecksumMatches(i) ==
  /\ i.checksum_type \in {kCRC32c, kxxHash}
  /\ DecodeFixed32(SubSeq(i.block, i.n + 2, i.n + 5))
       = StoredChecksum(i.checksum_type, Take(i.block, i.n + 1))

\* the reader delivered the whole block
FullDiskRead == Occurs("read_done") /\ ok(inp.rd.status) /\ ~inp.rd.short

\* C1: for the same inputs, a RequestContentstRead that finishes without
\* IOPending and one that finishes through OnIoCompletion end with the status
\* code, subcode and message and the BlockContents of the synchronous
\* ReadContents; only the async bit may differ.
C1_SyncAsyncEquivalence ==
  (run = "RequestContentstRead" /\ Finished) =>
    /\ Len(syncRes) = 1
    /\ Completed => Len(cbs) = 1
    /\ SameOutcome(Final, syncRes[1].status)
    /\ contents = syncRes[1].contents

C1_Witness ==
  /\ run = "RequestContentstRead"
  /\ Completed
  /\ ok(ioret[1])
  /\ Occurs("decompress")
  /\ contents.owned
  /\ contents = syncRes[1].contents

\* C2 as claimed: every read started through a request function has its
\* callback invoked exactly once when it reaches its terminal state.
C2_ExactlyOnceOnEveryPath ==
  (RequestRun /\ pc = "done" /\ Finished) => Len(cbs) = 1

\* C2 as the code has it: the callback is invoked exactly once for a read whose
\* request returned IOPending, by its I/O completion, and never for a read
\* that finished inside the request function, whose result is the status the
\* request returns.
C2_CallbackIffPending ==
  RequestRun =>
    /\ Len(cbs) <= 1
    /\ Completed <=> Len(cbs) = 1
    /\ InlineDone => (Len(cbs) = 0 /\ ~IsIOPending(ret[1]))
    /\ (pc = "done" /\ io # "none") => IsIOPending(ret[1])

C2_Witness ==
  /\ run = "RequestContentstRead"
  /\ pc = "done"
  /\ Completed
  /\ IsIOPending(ret[1])
  /\ Len(cbs) = 1

\* C3: every status handed to a client callback by an I/O completion (footer,
\* block, block contents) has async = true, Ok or not, and is the status the
\* completion returns; a terminal status produced without a completion has
\* async = false when the reader's status has.
C3_AsyncBitMarksCallback ==
  /\ \A k \in 1..Len(cbs) : cbs[k].async
  /\ Completed => (Len(cbs) >= 1 /\ ioret = <<cbs[Len(cbs)]>>)
  /\ (InlineDone /\ ~inp.rd.status.async) => ~ret[1].async

C3_Witness ==
  /\ run = "RequestFooterRead"
  /\ Completed
  /\ Len(cbs) = 1
  /\ cbs[1].code = "Corruption"
  /\ cbs[1].async
  /\ ioret[1] = cbs[1]

\* C4: when an uncompressed persistent cache answers the lookup with Ok, the
\* read ends Ok with the cached contents inside the entry point; the reader
\* is not called and neither the checksum nor the decompression stage runs,
\* whatever the reader would have answered.
C4_UncompressedHitBypassesDisk ==
  (inp.kind = "contents" /\ ContentsRun
     /\ inp.cache = "uncompressed" /\ ok(inp.lookup)) =>
    /\ InlineDone
    /\ ok(ret[1])
    /\ contents = inp.cached
    /\ \A k \in 1..Len(events) :
         events[k] \notin {"read", "read_done", "checksum", "decompress"}

C4_Witness ==
  /\ run = "RequestContentstRead"
  /\ inp.cache = "uncompressed"
  /\ ok(inp.lookup)
  /\ ~ok(inp.rd.status)
  /\ InlineDone
  /\ ok(ret[1])
  /\ contents = inp.cached

\* a block or block-contents read whose block came from the file
DiskRead == inp.kind \in {"contents", "block"} /\ Occurs("read_done")

\* the only path on which the verification result is dropped: a
\* RequestBlockRead whose read finished without IOPending
UnverifiedReturn == run = "RequestBlockRead" /\ InlineDone

\* the checksum gate of a finished read
ChecksumGate ==
  /\ ok(Final) => WriterChecksumMatches(inp)
  /\ (inp.checksum_type \in {kCRC32c, kxxHash} /\ ~WriterChecksumMatches(inp))
       => (SameOutcome(Final, Corruption("block checksum mismatch"))
             /\ contents = EmptyContents
             /\ ~Occurs("decompress"))

\* C5: with verify_checksums and a block read from the file in full, the read
\* returns Ok only if the checksum over payload and tag equals the stored one
\* (unmasked for CRC32C, raw for XXH32); a mismatch ends the read with
\* Corruption("block checksum mismatch") and without contents.
C5_ChecksumGate ==
  (DiskRead /\ FullDiskRead /\ inp.verify_checksums /\ Finished)
    => ChecksumGate

\* C5 on every path but the unverified return of RequestBlockRead
C5_ChecksumGateVerifiedPaths ==
  (DiskRead /\ FullDiskRead /\ inp.verify_checksums /\ Finished
     /\ ~UnverifiedReturn) => ChecksumGate

\* a short read ends the read before any later stage
TruncatedOutcome ==
  /\ SameOutcome(Final, Corruption("truncated block read"))
  /\ \A k \in 1..Len(events) :
       events[k] \notin {"checksum", "insert_raw", "decompress",
                         "insert_uncompressed"}
  /\ rawIns = <<>>
  /\ uncIns = <<>>

\* C6: when the reader returns Ok with a slice whose length is not
\* handle.size + 5, the read ends with Corruption("truncated block read"),
\* whatever verify_checksums is, before any checksum check, decompression or
\* persistent-cache insert.
C6_TruncatedRead ==
  (DiskRead /\ ok(inp.rd.status) /\ inp.rd.short /\ Finished)
    => TruncatedOutcome

\* C6 on every path but the unverified return of RequestBlockRead
C6_TruncatedReadVerifiedPaths ==
  (DiskRead /\ ok(inp.rd.status) /\ inp.rd.short /\ Finished
     /\ ~UnverifiedReturn) => TruncatedOutcome

\* C7: with a persistent cache of either tier configured, a lookup status
\* other than Ok sends the read to the disk, and the read ends exactly as it
\* does when the lookup answers NotFound: same status, contents and cache
\* inserts.
C7_LookupFailureIsMiss ==
  (inp.kind = "contents" /\ ContentsRun /\ inp.cache # "none"
     /\ ~ok(inp.lookup) /\ Finished) =>
    LET miss == ReadContentsOp([inp EXCEPT !.lookup = NotFound]) IN
    /\ Count("read") = 1
    /\ SameOutcome(Final, miss.status)
    /\ contents = miss.contents
    /\ rawIns = miss.raw
    /\ uncIns = miss.unc

C7_Witness ==
  /\ run = "RequestContentstRead"
  /\ inp.cache = "uncompressed"
  /\ inp.lookup.code = "IOError"
  /\ Completed
  /\ ok(ioret[1])
  /\ Occurs("read_done")
  /\ contents.data # <<>>

\* C8: when the positional read ends with a status that is not Ok, the read
\* ends with that status' code and subcode, after exactly one read, without
\* a persistent-cache insert of either tier and without decompression.
C8_ReaderErrorsPropagate ==
  (DiskRead /\ ~ok(inp.rd.status)) =>
    /\ Finished
    /\ Final.code = inp.rd.status.code
    /\ Final.subcode = inp.rd.status.subcode
    /\ Final.msg = inp.rd.status.msg
    /\ Count("read") = 1
    /\ rawIns = <<>>
    /\ uncIns = <<>>
    /\ ~Occurs("insert_raw")
    /\ ~Occurs("insert_uncompressed")
    /\ ~Occurs("decompress")
    /\ contents = EmptyContents

C8_Witness ==
  /\ run = "RequestContentstRead"
  /\ Completed
  /\ ioret[1].code = "ShutdownInProgress"
  /\ inp.fill_cache
  /\ inp.cache = "compressed"
  /\ rawIns = <<>>

\* C9: the heap-allocated context of a request is destroyed exactly once: by
\* the requesting task when the request did not return IOPending, by the
\* completion when it did; it is alive while the read is queued, and no task
\* uses it after its destruction, whichever of the completion and the return
\* of the request function comes first.
C9_UniqueOwnership ==
  RequestRun =>
    /\ ~uaf
    /\ frees <= 1
    /\ InlineDone => (frees = 1 /\ ctx.state = "freed_by_request")
    /\ Completed => (frees = 1 /\ ctx.state = "freed_by_completion")
    /\ io = "queued" => (frees = 0 /\ Live(ctx))

C9_Witness ==
  /\ run = "RequestContentstRead"
  /\ pc = "submitted"
  /\ Completed
  /\ frees = 1
  /\ ctx.state = "freed_by_completion"

\* the positional read delivers a block that passes the checks of S1
DiskReadSucceeds(i) ==
  /\ ok(i.rd.status)
  /\ ~i.rd.short
  /\ i.verify_checksums => WriterChecksumMatches(i)

\* C10: in a block-contents read the persistent-cache probe comes first, at
\* most one positional read is issued, the compressed-cache insert, the
\* decompression and the uncompressed-cache insert come only after a
\* positional read that succeeded or after a compressed-cache hit, and an
\* asynchronous read is suspended only at the positional read.
C10_StageOrder ==
  (inp.kind = "contents" /\ ContentsRun) =>
    /\ events[1] = "S0"
    /\ Count("S0") = 1
    /\ Count("read") <= 1
    /\ \A k \in 1..Len(events) :
         events[k] \in {"insert_raw", "decompress", "insert_uncompressed"} =>
           \/ /\ \E j \in 1..(k - 1) : events[j] = "read_done"
              /\ DiskReadSucceeds(inp)
           \/ /\ inp.cache = "compressed"
              /\ ok(inp.lookup)
              /\ ~Occurs("read")
    /\ ~Finished => (io = "queued" /\ events[Len(events)] = "read")

C10_Witness ==
  /\ run = "RequestContentstRead"
  /\ Completed
  /\ Occurs("insert_raw")
  /\ Occurs("decompress")
  /\ ok(ioret[1])

\* the bytes EncodeTo appended to dst
Appended == Len(dst) - Len(cin.original)

CurrentFooterRound ==
  /\ cin.kind = "footer"
  /\ cin.value.table_magic_number \in
       {kBlockBasedTableMagicNumber, kPlainTableMagicNumber}

\* C11: a footer of the current format (non-legacy magic number, version >= 1,
\* any checksum kind, initialised handles) is encoded into exactly 53 bytes,
\* and DecodeFrom on them returns Ok with the same magic number, version,
\* checksum kind, metaindex handle and index handle.
C11_FooterRoundTrip ==
  (CurrentFooterRound /\ cpc \in {"encoded", "decoded"}) =>
    /\ Appended = 53
    /\ cpc = "decoded" =>
         /\ ok(dec[1].status)
         /\ dec[1].footer = cin.value

C11_Witness ==
  /\ CurrentFooterRound
  /\ cpc = "decoded"
  /\ cin.original = <<>>
  /\ cin.value.checksum = kxxHash
  /\ cin.value.version = <<1, 0>>
  /\ cin.value.metaindex_handle.offset = 268435000
  /\ ok(dec[1].status)

LegacyFooterRound ==
  /\ cin.kind = "footer"
  /\ cin.value.table_magic_number \in
       {kLegacyBlockBasedTableMagicNumber, kLegacyPlainTableMagicNumber}

\* the current magic number a legacy one stands for
CurrentMagicOf(magic) ==
  IF magic = kLegacyBlockBasedTableMagicNumber
    THEN kBlockBasedTableMagicNumber ELSE kPlainTableMagicNumber

\* C12: a footer with a legacy magic number (block-based or plain), version 0
\* and CRC32C is encoded into exactly 48 bytes, and DecodeFrom on a tail of at
\* least 53 bytes that ends in them returns Ok with the same handles, the
\* corresponding current magic number, version 0 and CRC32C, whatever the
\* bytes before the 48 are.
C12_LegacyUpconversion ==
  (LegacyFooterRound /\ cpc \in {"encoded", "decoded"}) =>
    /\ Appended = 48
    /\ cpc = "decoded" =>
         /\ Len(dst) >= 53
         /\ ok(dec[1].status)
         /\ dec[1].footer =
              [table_magic_number |->
                 CurrentMagicOf(cin.value.table_magic_number),
               version |-> <<0, 0>>,
               checksum |-> kCRC32c,
               metaindex_handle |-> cin.value.metaindex_handle,
               index_handle |-> cin.value.index_handle]

C12_Witness ==
  /\ LegacyFooterRound
  /\ cpc = "decoded"
  /\ cin.value.table_magic_number = kLegacyPlainTableMagicNumber
  /\ cin.original = <<9, 2, 2, 0, 0, 0>>
  /\ dec[1].footer.table_magic_number = kPlainTableMagicNumber
  /\ dec[1].footer.version = <<0, 0>>

FooterRead == inp.kind = "footer" /\ Finished

\* the magic number is set and both handles hold what a decoder read
Populated(f) ==
  /\ f.table_magic_number # kInvalidTableMagicNumber
  /\ f.metaindex_handle # UninitHandle
  /\ f.index_handle # UninitHandle

\* C13: after a footer read the caller's Footer is either fully uninitialised
\* or fully populated; a read that ends with a non-Ok status exposes no
\* partially decoded state (a magic number or version set while the handles
\* are unset or reset).
C13_FooterAllOrNothing ==
  FooterRead => (footer = UninitFooter \/ Populated(footer))

\* the part of C13 the code keeps: a read that ends with Ok leaves a fully
\* populated footer, and a read that never called DecodeFrom leaves the
\* footer untouched
C13_OkFooterPopulated ==
  FooterRead =>
    /\ ok(Final) => Populated(footer)
    /\ ~Occurs("decode") => footer = UninitFooter

C13_Witness ==
  /\ FooterRead
  /\ Final.msg = "bad checksum type"
  /\ footer.table_magic_number = kBlockBasedTableMagicNumber
  /\ footer.metaindex_handle = UninitHandle

HandleRound == cin.kind = "handle"

C15_ShortFileRejected ==
  FooterRead =>
    /\ ~ok(inp.rd.status) =>
         /\ SameOutcome(Final, inp.rd.status)
         /\ ~Occurs("decode")
    /\ (ok(inp.rd.status) /\ Len(inp.tail) < 53) =>
         /\ SameOutcome(Final,
                        Corruption("file is too short to be an sstable"))
         /\ ~Occurs("decode")
         /\ footer = UninitFooter

C15_Witness ==
  /\ FooterRead
  /\ ok(inp.rd.status)
  /\ Len(inp.tail) = 52
  /\ Final.msg = "file is too short to be an sstable"
  /\ run = "ReadFooterFromFile"

\* the read delivered a whole tail and Footer::DecodeFrom accepts it
FooterDecodesOk ==
  /\ ok(inp.rd.status)
  /\ Len(inp.tail) >= kMinEncodedLength
  /\ ok(FooterDecodeFrom(UninitFooter, inp.tail).status)

\* C16: when the footer decodes successfully, the footer read returns Ok iff
\* enforce_table_magic_number is 0 or equals the decoded (upconverted) magic
\* number, and Corruption("Bad table magic number") otherwise; enforcing the
\* block-based magic number accepts legacy and current block-based files and
\* rejects plain-table files.
C16_MagicEnforcement ==
  (FooterRead /\ FooterDecodesOk) =>
    /\ ok(Final) <=>
         \/ inp.enforce_table_magic_number = kInvalidTableMagicNumber
         \/ inp.enforce_table_magic_number = footer.table_magic_number
    /\ ~ok(Final) =>
         SameOutcome(Final, Corruption("Bad table magic number"))
    /\ inp.enforce_table_magic_number = kBlockBasedTableMagicNumber =>
         /\ FooterMagic(inp.tail) \in {kBlockBasedTableMagicNumber,
                                       kLegacyBlockBasedTableMagicNumber}
              => ok(Final)
         /\ FooterMagic(inp.tail) \in {kPlainTableMagicNumber,
                                       kLegacyPlainTableMagicNumber}
              => ~ok(Final)

C16_Witness ==
  /\ FooterRead
  /\ FooterDecodesOk
  /\ inp.enforce_table_magic_number = kBlockBasedTableMagicNumber
  /\ FooterMagic(inp.tail) = kLegacyBlockBasedTableMagicNumber
  /\ ok(Final)
  /\ footer.table_magic_number = kBlockBasedTableMagicNumber

\* a block-contents read that got the block's bytes past the checksum stage:
\* from the file, or from the compressed tier of the persistent cache
PassedChecksumStage ==
  /\ inp.kind = "contents"
  /\ ContentsRun
  /\ Finished
  /\ \/ inp.cache = "compressed" /\ ok(inp.lookup)
     \/ /\ ~(inp.cache = "uncompressed" /\ ok(inp.lookup))
        /\ DiskReadSucceeds(inp)

\* the compression type byte of the block, after its payload
TrailerTag == inp.block[inp.n + 1]

\* C17: when decompression is requested and the trailer tag is none of
\* 0, 1, 2, 3, 4, 5, 6, 7, 0x40, a read that passed the checksum stage ends
\* with Corruption("bad block type"), produces no BlockContents and makes no
\* uncompressed-cache insert.
C17_UnknownCodecTag ==
  (PassedChecksumStage /\ inp.decompression_requested
     /\ TrailerTag \notin {0, 1, 2, 3, 4, 5, 6, 7, 64}) =>
    /\ SameOutcome(Final, Corruption("bad block type"))
    /\ contents = EmptyContents
    /\ uncIns = <<>>

C17_Witness ==
  /\ PassedChecksumStage
  /\ inp.decompression_requested
  /\ TrailerTag = 119
  /\ inp.cache = "uncompressed"
  /\ inp.fill_cache
  /\ inp.verify_checksums
  /\ Final.msg = "bad block type"
  /\ Occurs("decompress")

\* the Status values at hand: the client's objects
Held == {sobj[n] : n \in StatusNames}

\* C18: a == b iff a.code() == b.code(), whatever the subcodes, messages and
\* async bits are; a != b is its negation; the relation is reflexive,
\* symmetric and transitive.
C18_EqualityComparesCode ==
  /\ op.name = "compare" =>
       /\ op.eq <=> (sobj[op.dst].code = sobj[op.src].code)
       /\ op.ne <=> ~op.eq
  /\ \A x \in Held, y \in Held, z \in FactoryValues :
       /\ StatusEq(x, y) <=> (x.code = y.code)
       /\ StatusEq(x, z) <=> (x.code = z.code)
       /\ StatusNe(x, z) <=> ~StatusEq(x, z)
       /\ StatusEq(x, x)
       /\ StatusEq(x, z) <=> StatusEq(z, x)
       /\ (StatusEq(x, y) /\ StatusEq(y, z)) => StatusEq(x, z)

C18_Witness ==
  /\ op.name = "compare"
  /\ op.dst = "a"
  /\ op.src = "b"
  /\ op.eq
  /\ ~op.ne
  /\ sobj["a"].subcode = "NoSpace"
  /\ sobj["b"].subcode = "None"
  /\ sobj["a"].msg # sobj["b"].msg
  /\ sobj["a"].async # sobj["b"].async

\* the step was a copy (assignment or construction) from another object
Copied ==
  /\ op'.name \in {"copy", "copy_construct"}
  /\ op'.dst # op'.src
\* the step was a move (assignment or construction) from another object
Moved ==
  /\ op'.name \in {"move", "move_construct"}
  /\ op'.dst # op'.src
\* the step assigned an object to itself
SelfAssigned ==
  /\ op'.name \in {"copy", "move"}
  /\ op'.dst = op'.src

\* C19: a copy makes the destination equal to the source in code, subcode,
\* message and async bit and leaves the source unchanged; a move gives the
\* destination the source's former fields and leaves the source Ok, None,
\* without message and with async = false; self-assignment changes nothing.
C19_CopyAndMove ==
  [][ /\ Copied => /\ sobj'[op'.dst] = sobj[op'.src]
                   /\ sobj'[op'.src] = sobj[op'.src]
      /\ Moved => /\ sobj'[op'.dst] = sobj[op'.src]
                  /\ sobj'[op'.src] = StatusOK
      /\ SelfAssigned => sobj' = sobj ]_vars

C19_Witness ==
  /\ op = [name |-> "move", dst |-> "a", src |-> "b"]
  /\ sobj["a"] = SetAsync(NoSpaceMsg("m"), TRUE)
  /\ sobj["b"] = StatusOK

\* C20: in every Status value a client can hold, subcode NoSpace implies code
\* IOError and subcode MemoryLimit implies code Aborted.
C20_SubcodeInvariant ==
  \A s \in Held :
    /\ s.subcode = "NoSpace" => s.code = "IOError"
    /\ s.subcode = "MemoryLimit" => s.code = "Aborted"

\* what the code guarantees instead: IsNoSpace and IsMemoryLimit look at the
\* code as well, so they hold only of IOError and Aborted values
C20_PredicatesCheckCode ==
  \A s \in Held :
    /\ IsNoSpace(s) => s.code = "IOError"
    /\ IsMemoryLimit(s) => s.code = "Aborted"
    /\ (s.subcode = "NoSpace" /\ s.code # "IOError") => ~IsNoSpace(s)

\* the payload of the block, handle.size bytes
Payload == Take(inp.block, inp.n)

\* the slice S2 works on lies in the reader's own storage, not in the
\* pipeline's buffer
ReaderOwnedSlice ==
  /\ ~(inp.cache = "compressed" /\ ok(inp.lookup))
  /\ inp.rd.where = "reader"

\* C21: a successful read that went through S2 produces its contents in
\* exactly one of three ways: (1) decompression requested and tag not None: an
\* owned decompressed buffer, cachable, compression None; (2) otherwise, the
\* slice outside the pipeline's buffer: a borrow of the first handle.size
\* bytes, not cachable, compression = tag; (3) otherwise an owned heap buffer
\* with exactly the first handle.size bytes, cachable, compression = tag.
C21_ResultClassification ==
  (PassedChecksumStage /\ ok(Final)) =>
    IF inp.decompression_requested /\ TrailerTag # 0
      THEN /\ contents.owned
           /\ contents.cachable
           /\ contents.compression_type = 0
           /\ Occurs("decompress")
    ELSE IF ReaderOwnedSlice
      THEN /\ contents = BlockContents(Payload, FALSE, TrailerTag, FALSE)
           /\ ~Occurs("decompress")
    ELSE /\ contents = BlockContents(Payload, TRUE, TrailerTag, TRUE)
         /\ ~Occurs("decompress")

C21_Witness ==
  /\ PassedChecksumStage
  /\ ok(Final)
  /\ ReaderOwnedSlice
  /\ ~inp.decompression_requested
  /\ TrailerTag = 1
  /\ inp.n = 1
  /\ contents = BlockContents(Payload, FALSE, 1, FALSE)

\* a finished block-contents read that read the block from the file, past the
\* checksum stage, with fill_cache and a compressed persistent cache
RawFillRead ==
  /\ PassedChecksumStage
  /\ Occurs("read_done")
  /\ inp.fill_cache
  /\ inp.cache = "compressed"

\* the raw insert was made, with the block's bytes, before any decompression
RawFillOfBlock ==
  /\ rawIns = <<inp.block>>
  /\ \E k \in 1..Len(events) :
       /\ events[k] = "insert_raw"
       /\ \A j \in 1..k : events[j] # "decompress"

\* C22: with fill_cache and a compressed persistent cache, every successful
\* disk read inserts, before decompression, the handle.size + 5 bytes of the
\* slice the reader returned (payload, tag, checksum), also when the reader
\* returned a view that lies outside the pipeline's scratch buffer.
C22_RawFillStoresBlock == RawFillRead => RawFillOfBlock

\* C22 for the readers that fill the scratch buffer they were given
C22_RawFillFromScratch ==
  (RawFillRead /\ inp.rd.where = "scratch") => RawFillOfBlock

ContentsRead == inp.kind = "contents" /\ ContentsRun /\ Finished

\* C23: a read inserts into the uncompressed persistent cache iff it reached
\* S2, its final status is Ok, fill_cache is true and an uncompressed
\* persistent cache is configured; without fill_cache no insert of either
\* kind is made, and none into the uncompressed cache after a failed
\* decompression.
C23_UncompressedFillCondition ==
  ContentsRead =>
    /\ (uncIns # <<>>) <=>
         /\ PassedChecksumStage
         /\ ok(Final)
         /\ inp.fill_cache
         /\ inp.cache = "uncompressed"
    /\ Len(uncIns) <= 1
    /\ Occurs("insert_uncompressed") <=> (uncIns # <<>>)
    /\ ~inp.fill_cache => (rawIns = <<>> /\ uncIns = <<>>)
    /\ (Occurs("decompress") /\ ~ok(Final)) => uncIns = <<>>

C23_Witness ==
  /\ ContentsRead
  /\ io = "completed"
  /\ inp.fill_cache
  /\ inp.cache = "uncompressed"
  /\ inp.lookup.code = "IOError"
  /\ inp.decompression_requested
  /\ TrailerTag = 1
  /\ ok(Final)
  /\ uncIns = <<contents>>

CompressedHit ==
  /\ inp.kind = "contents"
  /\ ContentsRun
  /\ inp.cache = "compressed"
  /\ ok(inp.lookup)

\* C24: when the compressed persistent cache answers the raw lookup with Ok,
\* the pipeline issues no positional read and verifies no checksum, also with
\* verify_checksums, and goes on with S2 on the cached bytes, taking the
\* compression tag from byte handle.size of the cached buffer.
C24_CompressedHit ==
  CompressedHit =>
    /\ InlineDone
    /\ \A k \in 1..Len(events) :
         events[k] \notin {"read", "read_done", "checksum"}
    /\ Final.msg \notin {"block checksum mismatch", "unknown checksum type",
                         "truncated block read"}
    /\ IF inp.decompression_requested /\ TrailerTag # 0
         THEN /\ Occurs("decompress")
              /\ ok(Final) => contents.compression_type = 0
         ELSE /\ ok(Final)
              /\ contents = BlockContents(Payload, TRUE, TrailerTag, TRUE)

C24_Witness ==
  /\ CompressedHit
  /\ InlineDone
  /\ run = "RequestContentstRead"
  /\ inp.verify_checksums
  /\ ~WriterChecksumMatches(inp)
  /\ ~ok(inp.rd.status)
  /\ TrailerTag = 1
  /\ inp.decompression_requested
  /\ ok(Final)
  /\ Occurs("decompress")

\* a finished read that got the whole block from the file of a footer whose
\* checksum kind is neither kCRC32c nor kxxHash
UnknownKindRead ==
  /\ DiskRead
  /\ FullDiskRead
  /\ Finished
  /\ inp.checksum_type \notin {kCRC32c, kxxHash}

\* the outcome C25 states for such a read
UnknownKindOutcome ==
  IF inp.verify_checksums
    THEN SameOutcome(Final, Corruption("unknown checksum type"))
    ELSE /\ ~Occurs("checksum")
         /\ Final.msg \notin {"unknown checksum type",
                              "block checksum mismatch"}
         /\ (inp.kind = "block" \/ ~inp.decompression_requested
               \/ TrailerTag = 0) => ok(Final)

\* C25: with verify_checksums and a footer checksum kind that is neither
\* CRC32C nor XXH32, a full-length disk read ends with
\* Corruption("unknown checksum type"), never with "block checksum mismatch";
\* without verify_checksums the kind is not examined and the read succeeds.
C25_UnknownChecksumKind == UnknownKindRead => UnknownKindOutcome

\* C25 on every path but the unverified return of RequestBlockRead
C25_UnknownChecksumKindVerifiedPaths ==
  (UnknownKindRead /\ ~UnverifiedReturn) => UnknownKindOutcome

\* RequestBlockRead has returned, its read having finished without IOPending,
\* after ReadBlock ran on the same inputs
BlockInlineRun ==
  /\ inp.kind = "block"
  /\ run = "RequestBlockRead"
  /\ InlineDone

\* C26: for ReadBlockContext, RequestBlockRead whose read finishes without
\* IOPending returns the same status as the synchronous ReadBlock on the same
\* inputs, and never Ok for a block that ReadBlock rejects.
C26_SameVerification ==
  BlockInlineRun =>
    /\ SameOutcome(ret[1], syncRes[1].status)
    /\ ~ok(syncRes[1].status) => ~ok(ret[1])

\* the completion callback of a pending RequestBlockRead does deliver the
\* status ReadBlock returns
C26_CallbackSameVerification ==
  (inp.kind = "block" /\ run = "RequestBlockRead" /\ Completed) =>
    SameOutcome(Final, syncRes[1].status)

\* BlockHandle::DecodeFrom has run on an input that does not hold both varints
DamagedHandleDecoded == cin.kind = "handle" /\ cpc = "damaged"

\* C27: whenever BlockHandle::DecodeFrom cannot decode both varints (the input
\* ends mid-varint or a varint is over-long), also when the offset decoded and
\* only the size failed, it returns Corruption("bad block handle") and the
\* handle is exactly (0, 0).
C27_DecodeFailureResets ==
  DamagedHandleDecoded =>
    /\ SameOutcome(dec[1].status, Corruption("bad block handle"))
    /\ dec[1].handle = [offset |-> 0, size |-> 0]

\* the offset decoded, the size is an over-long varint
C27_Witness ==
  /\ DamagedHandleDecoded
  /\ cin.value.offset = 16384
  /\ dec[2] = PutVarint64(16384) \o OverlongVarint
  /\ GetVarint64(dec[2]).ok
  /\ dec[1].handle = kNullBlockHandle

\* a finished block-contents read that S0 served from the persistent cache
UncompressedHit == ContentsRead /\ inp.cache = "uncompressed" /\ ok(inp.lookup)
CacheHit == UncompressedHit \/ (ContentsRead /\ CompressedHit)

\* the disk reads of the round that got the block past the checksum stage
SuccessfulDiskReads ==
  IF PassedChecksumStage /\ Occurs("read_done") THEN 1 ELSE 0

\* C28: a read that S0 serves from either tier of the persistent cache makes
\* no persistent-cache insert, so a handle's raw inserts are at most its
\* successful disk reads.
C28_CacheHitWritesNothing ==
  ContentsRead =>
    /\ CacheHit => (rawIns = <<>> /\ uncIns = <<>>)
    /\ Len(rawIns) <= SuccessfulDiskReads

\* C28, amended: a hit of the uncompressed tier makes no insert; a hit of the
\* compressed tier goes through S2, makes no uncompressed insert and, exactly
\* when fill_cache is set, inserts the page it was served again; a handle's
\* raw inserts are at most its successful disk reads plus its compressed hits.
C28_CacheHitWriteBack ==
  ContentsRead =>
    /\ UncompressedHit =>
         /\ rawIns = <<>>
         /\ uncIns = <<>>
         /\ ~Occurs("insert_raw") /\ ~Occurs("insert_uncompressed")
    /\ CompressedHit =>
         /\ uncIns = <<>>
         /\ rawIns = IF inp.fill_cache THEN <<inp.block>> ELSE <<>>
         /\ Occurs("insert_raw") <=> inp.fill_cache
    /\ Len(rawIns) <= SuccessfulDiskReads + (IF CompressedHit THEN 1 ELSE 0)

C28_Witness ==
  /\ ContentsRead
  /\ CompressedHit
  /\ inp.fill_cache
  /\ run = "RequestContentstRead"
  /\ SuccessfulDiskReads = 0
  /\ ~Occurs("read")
  /\ rawIns = <<inp.block>>

\* a finished read whose S2 ended Ok with fill_cache and an uncompressed
\* persistent cache: the reads that make the uncompressed insert
UncompressedFill ==
  /\ PassedChecksumStage
  /\ ok(Final)
  /\ inp.fill_cache
  /\ inp.cache = "uncompressed"

\* the block was decompressed
Decompressed == inp.decompression_requested /\ TrailerTag # kNoCompression

\* C29: every BlockContents the pipeline passes to the uncompressed
\* persistent-cache insert has compression None and cachable true, whatever
\* decompression_requested, the trailer tag and the reader's aliasing are.
C29_UncompressedInsertsOwnedUncompressed ==
  ContentsRead =>
    \A k \in 1..Len(uncIns) :
      /\ uncIns[k].compression_type = kNoCompression
      /\ uncIns[k].cachable

\* C29, amended: the pipeline passes to the uncompressed insert the contents
\* it returns, as produced; they have compression None iff the block was
\* decompressed or its tag is None, and otherwise carry the tag; they are
\* cachable iff the block was decompressed or the reader filled the
\* pipeline's buffer, and otherwise are a borrow of the reader's storage.
C29_UncompressedInsertIsResult ==
  (ContentsRead /\ UncompressedFill) =>
    /\ uncIns = <<contents>>
    /\ contents.compression_type =
         IF inp.decompression_requested THEN kNoCompression ELSE TrailerTag
    /\ contents.cachable <=> (Decompressed \/ ~ReaderOwnedSlice)
    /\ contents.owned <=> contents.cachable

\* still-compressed bytes borrowed from the reader are passed to the insert
C29_Witness ==
  /\ ContentsRead
  /\ UncompressedFill
  /\ ~inp.decompression_requested
  /\ TrailerTag = 1
  /\ ReaderOwnedSlice
  /\ uncIns = <<BlockContents(Payload, FALSE, 1, FALSE)>>

====
